---- MODULE Spec2Model ----
(***************************************************************************)
(* Model of src/api/main_standalone.py: the image-selection pipeline that  *)
(* turns the slide images of an article page into one PDF, in its          *)
(* synchronous form (POST /api/process) and in its progressive form        *)
(* (POST /api/process-stream, a generator yielding progress events).       *)
(*                                                                         *)
(* Three specifications:                                                   *)
(*   Spec        the two request handlers, served one after the other on   *)
(*               the same article and the same answers of the hosts;       *)
(*   SpecTrim    apply_edge_trimming applied to bounded inputs;            *)
(*   SpecFilter  image_passes_filters applied to bounded inputs.           *)
(***************************************************************************)
EXTENDS Integers, Sequences, FiniteSets, TLC

VARIABLES
    fetchResult,    \* answer of the article host to fetch_html
    html,           \* the article: one entry per <img> tag, document order
    trimLeading,    \* filters.trim_leading of the request
    trimTrailing,   \* filters.trim_trailing of the request
    syncPc,         \* position of process()
    syncUrls,       \* process(): urls
    syncIdx,        \* process(): number of urls the for loop has consumed
    syncKept,       \* process(): kept_images
    syncAttempts,   \* process(): urls handed to download_image, in call order
    syncPdfCalls,   \* process(): arguments of the calls of build_pdf
    syncResp,       \* process(): the HTTP response
    pc,             \* position of event_generator()
    urls,           \* event_generator(): urls
    idx,            \* event_generator(): i of the enumerate loop
    kept,           \* event_generator(): kept_images
    attempts,       \* event_generator(): urls handed to download_image
    pdfCalls,       \* event_generator(): arguments of the calls of build_pdf
    events,         \* event_generator(): the events yielded so far
    trimIn,         \* SpecTrim: arguments of apply_edge_trimming
    trimOut,        \* SpecTrim: its result
    filtIn,         \* SpecFilter: arguments of image_passes_filters
    filtOut         \* SpecFilter: its result

vars == <<fetchResult, html, trimLeading, trimTrailing,
          syncPc, syncUrls, syncIdx, syncKept, syncAttempts, syncPdfCalls, syncResp,
          pc, urls, idx, kept, attempts, pdfCalls, events,
          trimIn, trimOut, filtIn, filtOut>>

envVars == <<fetchResult, html, trimLeading, trimTrailing>>

syncVars == <<syncPc, syncUrls, syncIdx, syncKept, syncAttempts, syncPdfCalls, syncResp>>

streamVars == <<pc, urls, idx, kept, attempts, pdfCalls, events>>

pureVars == <<trimIn, trimOut, filtIn, filtOut>>

(***************************************************************************)
(* Bounds                                                                  *)
(***************************************************************************)
\* <img> tags of an article
MaxTags == 3

\* trim_leading / trim_trailing of a request
MaxTrim == 3

\* length of the list given to apply_edge_trimming in SpecTrim
MaxList == 3

\* leading / trailing given to apply_edge_trimming in SpecTrim
MaxCut == 5

\* width / height of a decoded image in SpecFilter
MaxDim == 4

\* min_width / min_height in SpecFilter
MaxMinSide == 3

\* min_area in SpecFilter
MaxMinArea == 5

(***************************************************************************)
(* Python helpers                                                          *)
(***************************************************************************)
Min(a, b) == IF a < b THEN a ELSE b

Max(a, b) == IF a > b THEN a ELSE b

\* A slice bound as Python clamps it: a negative bound counts from the end.
PyIndex(n, k) == IF k < 0 THEN Max(n + k, 0) ELSE Min(k, n)

\* s[lo:hi]
PySlice(s, lo, hi) == SubSeq(s, PyIndex(Len(s), lo) + 1, PyIndex(Len(s), hi))

\* s[lo:]
PySliceFrom(s, lo) == PySlice(s, lo, Len(s))

\* s[:hi]
PySliceTo(s, hi) == PySlice(s, 0, hi)

(***************************************************************************)
(* FilterSettings.  A ratio is a pair <<numerator, denominator>>; the      *)
(* defaults 0.6 and 1.8 are 3/5 and 9/5.                                   *)
(***************************************************************************)
DefaultAllowedDomains == << <<"mmbiz", "qpic", "cn">> >>

DefaultMinArea == 300000

DefaultMinWidth == 600

DefaultMinHeight == 400

DefaultAspectRatioMin == <<3, 5>>

DefaultAspectRatioMax == <<9, 5>>

FilterSettings(leading, trailing) ==
    [allowed_domains  |-> DefaultAllowedDomains,
     min_area         |-> DefaultMinArea,
     min_width        |-> DefaultMinWidth,
     min_height       |-> DefaultMinHeight,
     aspect_ratio_min |-> DefaultAspectRatioMin,
     aspect_ratio_max |-> DefaultAspectRatioMax,
     trim_leading     |-> leading,
     trim_trailing    |-> trailing]

(***************************************************************************)
(* apply_edge_trimming                                                     *)
(***************************************************************************)
apply_edge_trimming(us, leading, trailing) ==
    LET trimmed == IF leading # 0 THEN PySliceFrom(us, leading) ELSE us
    IN  IF trailing # 0
        THEN PySliceTo(trimmed, Len(trimmed) - trailing)
        ELSE trimmed

(***************************************************************************)
(* image_passes_filters.  Image bytes are a record: whether Image.open     *)
(* can read them, the size it reports, and whether the pixel data can be   *)
(* drawn (a truncated file opens, its header is intact, but cannot be      *)
(* drawn).                                                                 *)
(***************************************************************************)
\* a <= b for ratios with positive denominators
RatioLeq(a, b) == a[1] * b[2] <= b[1] * a[2]

\* image_passes_filters with the width check written `<=`: an image of
\* exactly min_width is rejected.
image_passes_filters_exclusive(img, filters) ==
    IF ~img.decodable THEN FALSE
    ELSE LET width  == img.width
             height == img.height
             area   == width * height
             ratio  == IF height # 0 THEN <<width, height>> ELSE <<0, 1>>
         IN  IF width <= filters.min_width \/ height < filters.min_height THEN FALSE
             ELSE IF area < filters.min_area THEN FALSE
             ELSE IF ~(RatioLeq(filters.aspect_ratio_min, ratio)
                       /\ RatioLeq(ratio, filters.aspect_ratio_max)) THEN FALSE
             ELSE TRUE

image_passes_filters(img, filters) ==
    IF ~img.decodable THEN FALSE
    ELSE LET width  == img.width
             height == img.height
             area   == width * height
             ratio  == IF height # 0 THEN <<width, height>> ELSE <<0, 1>>
         IN  IF width < filters.min_width \/ height < filters.min_height THEN FALSE
             ELSE IF area < filters.min_area THEN FALSE
             ELSE IF ~(RatioLeq(filters.aspect_ratio_min, ratio)
                       /\ RatioLeq(ratio, filters.aspect_ratio_max)) THEN FALSE
             ELSE TRUE

(***************************************************************************)
(* SpecTrim: apply_edge_trimming on every list of at most MaxList elements *)
(* and every leading, trailing in 0..MaxCut.                               *)
(***************************************************************************)
Idle == [state |-> "idle"]

TrimElems == {"a", "b"}

TrimLists == UNION {[1..n -> TrimElems] : n \in 0..MaxList}

PipelineIdle ==
    /\ fetchResult = "ok" /\ html = <<>> /\ trimLeading = 0 /\ trimTrailing = 0
    /\ syncPc = "idle" /\ syncUrls = <<>> /\ syncIdx = 0 /\ syncKept = <<>>
    /\ syncAttempts = <<>> /\ syncPdfCalls = <<>> /\ syncResp = Idle
    /\ pc = "idle" /\ urls = <<>> /\ idx = 0 /\ kept = <<>>
    /\ attempts = <<>> /\ pdfCalls = <<>> /\ events = <<>>

InitTrim ==
    /\ PipelineIdle
    /\ trimIn \in [urls : TrimLists, leading : 0..MaxCut, trailing : 0..MaxCut]
    /\ trimOut = Idle
    /\ filtIn = Idle /\ filtOut = Idle

ApplyTrim ==
    /\ trimIn # Idle /\ trimOut = Idle
    /\ trimOut' = [state |-> "returned",
                   value |-> apply_edge_trimming(trimIn.urls, trimIn.leading, trimIn.trailing)]
    /\ UNCHANGED <<envVars, syncVars, streamVars, trimIn, filtIn, filtOut>>

NextTrim == ApplyTrim

SpecTrim == InitTrim /\ [][NextTrim]_vars

\* C1: apply_edge_trimming(urls, leading, trailing) returns urls without its
\* first `leading` and its last `trailing` elements, order kept: urls itself
\* for (0, 0), and the empty list whenever leading + trailing >= len(urls).
TrimDropsBothEnds ==
    trimOut # Idle =>
        LET n == Len(trimIn.urls)
            a == trimIn.leading
            b == trimIn.trailing
        IN  /\ trimOut.value =
                   IF a + b >= n THEN <<>>
                   ELSE [i \in 1..(n - a - b) |-> trimIn.urls[i + a]]
            /\ (a = 0 /\ b = 0) => trimOut.value = trimIn.urls

(***************************************************************************)
(* SpecFilter: image_passes_filters on undecodable bytes and on every      *)
(* image of size 0..MaxDim x 0..MaxDim, under every FilterSettings with    *)
(* min_width, min_height in 1..MaxMinSide, min_area in 1..MaxMinArea and   *)
(* aspect ratios among RatioChoices (the source does not require           *)
(* aspect_ratio_min <= aspect_ratio_max).                                  *)
(***************************************************************************)
RatioChoices == {<<1, 2>>, <<1, 1>>, <<3, 2>>}

Undecodable == [decodable |-> FALSE, width |-> 0, height |-> 0]

FilterImages ==
    {Undecodable} \cup [decodable : {TRUE}, width : 0..MaxDim, height : 0..MaxDim]

FilterChoices ==
    [min_area : 1..MaxMinArea, min_width : 1..MaxMinSide, min_height : 1..MaxMinSide,
     aspect_ratio_min : RatioChoices, aspect_ratio_max : RatioChoices]

InitFilter ==
    /\ PipelineIdle
    /\ trimIn = Idle /\ trimOut = Idle
    /\ filtIn \in [img : FilterImages, filters : FilterChoices]
    /\ filtOut = Idle

ApplyFilter ==
    /\ filtIn # Idle /\ filtOut = Idle
    /\ filtOut' = [state |-> "returned",
                   value |-> image_passes_filters(filtIn.img, filtIn.filters)]
    /\ UNCHANGED <<envVars, syncVars, streamVars, trimIn, trimOut, filtIn>>

NextFilter == ApplyFilter

SpecFilter == InitFilter /\ [][NextFilter]_vars

\* C8: image_passes_filters returns true exactly when the bytes decode and
\* width >= min_width, height >= min_height, width*height >= min_area and
\* aspect_ratio_min <= width/height <= aspect_ratio_max, the ratio being 0
\* when height is 0; so every boundary value passes and undecodable bytes
\* are rejected.
FilterAcceptsExactlyInBounds ==
    filtOut # Idle =>
        LET img == filtIn.img
            f   == filtIn.filters
            w   == img.width
            h   == img.height
        IN  filtOut.value =
                (/\ img.decodable
                 /\ w >= f.min_width
                 /\ h >= f.min_height
                 /\ w * h >= f.min_area
                 /\ IF h = 0
                    THEN FALSE  \* ratio 0 is below every aspect_ratio_min > 0
                    ELSE /\ f.aspect_ratio_min[1] * h <= w * f.aspect_ratio_min[2]
                         /\ w * f.aspect_ratio_max[2] <= f.aspect_ratio_max[1] * h)

\* C8 witness: an image on all four boundaries at once (exactly min_width,
\* min_height, min_area and aspect_ratio_min) has been accepted.
FilterBoundaryAccepted ==
    /\ filtOut # Idle
    /\ filtOut.value = TRUE
    /\ filtIn.img.width = filtIn.filters.min_width
    /\ filtIn.img.height = filtIn.filters.min_height
    /\ filtIn.img.width * filtIn.img.height = filtIn.filters.min_area
    /\ filtIn.img.width * filtIn.filters.aspect_ratio_min[2]
           = filtIn.filters.aspect_ratio_min[1] * filtIn.img.height

(***************************************************************************)
(* The environment of one request: the article and the hosts.              *)
(*                                                                         *)
(* fetchResult is the answer to fetch_html: "ok", an error status          *)
(* ("http_404", "http_503": raise_for_status raises HTTPStatusError) or    *)
(* "transport" (the client raises a transport error).                      *)
(*                                                                         *)
(* html[i] is the kind of the i-th <img> tag:                              *)
(*   "nosrc"      the tag has neither data-src nor src                     *)
(*   "foreign"    its source is on a host outside allowed_domains          *)
(*   "dead"       allowed host; the download fails                         *)
(*   "small"      allowed host; the image is 500 x 500                     *)
(*   "good"       allowed host; the image is 1920 x 1080                   *)
(*   "truncated"  allowed host; a 1920 x 1080 image whose header reads     *)
(*                but whose pixel data cannot be drawn                     *)
(* A URL is [id |-> i, kind |-> html[i]]: URLs of different tags differ.   *)
(***************************************************************************)
FetchResults == {"ok", "http_404", "http_503", "transport"}

TagKinds == {"nosrc", "foreign", "dead", "small", "good", "truncated"}

Articles == UNION {[1..n -> TagKinds] : n \in 0..MaxTags}

StatusCodeOf(result) == IF result = "http_404" THEN 404 ELSE 503

\* fetch_html: does it raise, and what does it raise
FetchRaisesStatus(result) == result \in {"http_404", "http_503"}

FetchRaisesOther(result) == result = "transport"

extract_image_urls(doc) ==
    LET all == [i \in 1..Len(doc) |-> [id |-> i, kind |-> doc[i]]]
        HasSrc(u) == u.kind # "nosrc"
    IN  SelectSeq(all, HasSrc)

\* urlparse(url).netloc, as its sequence of labels
NetlocOf(url) ==
    IF url.kind = "foreign" THEN <<"example", "com">>
    ELSE <<"sub", "mmbiz", "qpic", "cn">>

\* `domain in netloc`: containment of a contiguous run of labels
ContainsRun(netloc, domain) ==
    \E k \in 0..(Len(netloc) - Len(domain)) :
        SubSeq(netloc, k + 1, k + Len(domain)) = domain

domain_allowed(url, allowed_domains) ==
    \E d \in 1..Len(allowed_domains) : ContainsRun(NetlocOf(url), allowed_domains[d])

\* download_image: does it raise, and the bytes it returns
DownloadRaises(url) == url.kind = "dead"

ImageBytes(url) ==
    IF url.kind = "small"
    THEN [src |-> url.id, decodable |-> TRUE, width |-> 500, height |-> 500,
          drawable |-> TRUE]
    ELSE [src |-> url.id, decodable |-> TRUE, width |-> 1920, height |-> 1080,
          drawable |-> url.kind # "truncated"]

\* build_pdf: drawImage raises on pixel data that cannot be drawn; otherwise
\* the document has one page per image, in the order of the list.
BuildPdfRaises(images) == \E k \in 1..Len(images) : ~images[k].drawable

build_pdf(images) == [pages |-> images]

\* base64.b64encode(...).decode('utf-8') and its inverse
b64encode(bytes) == [b64 |-> bytes]

b64decode(text) == text.b64

(***************************************************************************)
(* process(): POST /api/process.                                           *)
(* Details of the responses:                                               *)
(*   "cannot_get_article"    line 143                                      *)
(*   "fetch_failed"          line 145                                      *)
(*   "no_img_tags"           line 149                                      *)
(*   "no_urls_after_filter"  line 155                                      *)
(*   "no_matching_images"    line 167                                      *)
(*   "internal_server_error" an exception that process() does not catch    *)
(***************************************************************************)
HttpError(code, detail) == [kind |-> "error", status |-> code, detail |-> detail]

PdfResponse(pdf_bytes) ==
    [kind |-> "pdf", status |-> 200, detail |-> "ppt.pdf", body |-> pdf_bytes]

\* Lines 137-157: from the fetch of the article up to the first download.
SyncFetchAndFilter ==
    /\ syncPc = "start"
    /\ LET filters  == FilterSettings(trimLeading, trimTrailing)
           found    == extract_image_urls(html)
           Allowed(u) == domain_allowed(u, filters.allowed_domains)
           filtered == SelectSeq(found, Allowed)
           trimmed  == apply_edge_trimming(filtered, filters.trim_leading,
                                           filters.trim_trailing)
           Fail(resp) == /\ syncResp' = resp
                         /\ syncPc' = "done"
                         /\ UNCHANGED <<syncUrls, syncKept>>
       IN  IF FetchRaisesStatus(fetchResult)
           THEN Fail(HttpError(StatusCodeOf(fetchResult), "cannot_get_article"))
           ELSE IF FetchRaisesOther(fetchResult)
           THEN Fail(HttpError(502, "fetch_failed"))
           ELSE IF found = <<>>
           THEN Fail(HttpError(404, "no_img_tags"))
           ELSE IF trimmed = <<>>
           THEN /\ syncResp' = HttpError(404, "no_urls_after_filter")
                /\ syncPc' = "done"
                /\ syncUrls' = trimmed
                /\ UNCHANGED syncKept
           ELSE /\ syncUrls' = trimmed
                /\ syncKept' = <<>>
                /\ syncPc' = "downloading"
                /\ UNCHANGED syncResp
    /\ UNCHANGED <<syncIdx, syncAttempts, syncPdfCalls>>
    /\ UNCHANGED <<envVars, streamVars, pureVars>>

\* SyncDownload without the call of image_passes_filters: every downloaded
\* image is kept.
SyncDownload_NoFilter ==
    /\ syncPc = "downloading"
    /\ syncIdx < Len(syncUrls)
    /\ LET url == syncUrls[syncIdx + 1]
       IN  /\ syncAttempts' = Append(syncAttempts, url)
           /\ syncIdx' = syncIdx + 1
           /\ IF DownloadRaises(url)
              THEN UNCHANGED syncKept
              ELSE syncKept' = Append(syncKept, ImageBytes(url))
    /\ UNCHANGED <<syncPc, syncUrls, syncPdfCalls, syncResp>>
    /\ UNCHANGED <<envVars, streamVars, pureVars>>

\* Lines 158-164: one iteration of the download loop.
SyncDownload ==
    /\ syncPc = "downloading"
    /\ syncIdx < Len(syncUrls)
    /\ LET url     == syncUrls[syncIdx + 1]
           filters == FilterSettings(trimLeading, trimTrailing)
       IN  /\ syncAttempts' = Append(syncAttempts, url)
           /\ syncIdx' = syncIdx + 1
           /\ IF DownloadRaises(url)
              THEN UNCHANGED syncKept
              ELSE IF image_passes_filters(ImageBytes(url), filters)
              THEN syncKept' = Append(syncKept, ImageBytes(url))
              ELSE UNCHANGED syncKept
    /\ UNCHANGED <<syncPc, syncUrls, syncPdfCalls, syncResp>>
    /\ UNCHANGED <<envVars, streamVars, pureVars>>

\* SyncFinish without the `if not kept_images` guard of line 166.
SyncFinish_NoGuard ==
    /\ syncPc = "downloading"
    /\ syncIdx = Len(syncUrls)
    /\ syncPdfCalls' = Append(syncPdfCalls, syncKept)
    /\ syncResp' = IF BuildPdfRaises(syncKept)
                   THEN HttpError(500, "internal_server_error")
                   ELSE PdfResponse(build_pdf(syncKept))
    /\ syncPc' = "done"
    /\ UNCHANGED <<syncUrls, syncIdx, syncKept, syncAttempts>>
    /\ UNCHANGED <<envVars, streamVars, pureVars>>

\* Lines 166-172: after the loop.
SyncFinish ==
    /\ syncPc = "downloading"
    /\ syncIdx = Len(syncUrls)
    /\ IF syncKept = <<>>
       THEN /\ syncResp' = HttpError(404, "no_matching_images")
            /\ UNCHANGED syncPdfCalls
       ELSE /\ syncPdfCalls' = Append(syncPdfCalls, syncKept)
            /\ syncResp' = IF BuildPdfRaises(syncKept)
                           THEN HttpError(500, "internal_server_error")
                           ELSE PdfResponse(build_pdf(syncKept))
    /\ syncPc' = "done"
    /\ UNCHANGED <<syncUrls, syncIdx, syncKept, syncAttempts>>
    /\ UNCHANGED <<envVars, streamVars, pureVars>>

(***************************************************************************)
(* event_generator(): POST /api/process-stream.  One action per stretch of *)
(* code between two suspension points of the generator; the action ends    *)
(* with the yield that closes the stretch.  The `message` texts of the     *)
(* progress events are left out; the `error` texts are                     *)
(*   "no_img_tags" line 197, "no_urls_after_filter" line 206,              *)
(*   "nothing_after_trim" line 215, "no_matching_images" line 237,         *)
(*   "cannot_get_article" line 256, "exception_text" (str(exc)) line 259.  *)
(***************************************************************************)
Yield(event, next) ==
    /\ events' = Append(events, event)
    /\ pc' = next

ProgressEvent(stage, progress) == [stage |-> stage, progress |-> progress]

ErrorEvent(error, error_type) ==
    [stage |-> "error", error |-> error, error_type |-> error_type]

\* Line 226 with the share of the stage written as 100 instead of 50.
DownloadProgress_Percent(i, total_urls) == 30 + ((i * 100) \div total_urls)

\* Line 226: 30 + int((i / total_urls) * 50).  The float product equals the
\* exact quotient for every total_urls below 50 (at 29/50 it falls one short).
DownloadProgress(i, total_urls) == 30 + ((i * 50) \div total_urls)


\* Line 186
StreamStart ==
    /\ syncPc = "done"
    /\ pc = "start"
    /\ Yield(ProgressEvent("fetching_html", 0), "fetch")
    /\ UNCHANGED <<urls, idx, kept, attempts, pdfCalls>>
    /\ UNCHANGED <<envVars, syncVars, pureVars>>

\* Lines 188-191, and the handlers of lines 255-260
StreamFetch ==
    /\ pc = "fetch"
    /\ IF FetchRaisesStatus(fetchResult)
       THEN Yield([stage |-> "error", error |-> "cannot_get_article",
                   error_type |-> "fetch_failed",
                   status_code |-> StatusCodeOf(fetchResult)], "done")
       ELSE IF FetchRaisesOther(fetchResult)
       THEN Yield(ErrorEvent("exception_text", "unknown"), "done")
       ELSE Yield(ProgressEvent("fetching_html", 10), "yield_extracting")
    /\ UNCHANGED <<urls, idx, kept, attempts, pdfCalls>>
    /\ UNCHANGED <<envVars, syncVars, pureVars>>

\* Line 194
StreamYieldExtracting ==
    /\ pc = "yield_extracting"
    /\ Yield(ProgressEvent("extracting_urls", 10), "extract")
    /\ UNCHANGED <<urls, idx, kept, attempts, pdfCalls>>
    /\ UNCHANGED <<envVars, syncVars, pureVars>>

\* Lines 195-200
StreamExtract ==
    /\ pc = "extract"
    /\ urls' = extract_image_urls(html)
    /\ IF urls' = <<>>
       THEN Yield(ErrorEvent("no_img_tags", "no_images"), "done")
       ELSE Yield([stage |-> "extracting_urls", progress |-> 20,
                   total_found |-> Len(urls')], "yield_filtering")
    /\ UNCHANGED <<idx, kept, attempts, pdfCalls>>
    /\ UNCHANGED <<envVars, syncVars, pureVars>>

\* Line 203
StreamYieldFiltering ==
    /\ pc = "yield_filtering"
    /\ Yield(ProgressEvent("filtering_domains", 20), "filter")
    /\ UNCHANGED <<urls, idx, kept, attempts, pdfCalls>>
    /\ UNCHANGED <<envVars, syncVars, pureVars>>

\* Lines 204-209
StreamDomainFilter ==
    /\ pc = "filter"
    /\ LET filters == FilterSettings(trimLeading, trimTrailing)
           Allowed(u) == domain_allowed(u, filters.allowed_domains)
       IN  urls' = SelectSeq(urls, Allowed)
    /\ IF urls' = <<>>
       THEN Yield(ErrorEvent("no_urls_after_filter", "filtered_out"), "done")
       ELSE Yield([stage |-> "filtering_domains", progress |-> 25,
                   after_domain |-> Len(urls')], "yield_trimming")
    /\ UNCHANGED <<idx, kept, attempts, pdfCalls>>
    /\ UNCHANGED <<envVars, syncVars, pureVars>>

\* Line 212
StreamYieldTrimming ==
    /\ pc = "yield_trimming"
    /\ Yield(ProgressEvent("trimming_edges", 25), "trim")
    /\ UNCHANGED <<urls, idx, kept, attempts, pdfCalls>>
    /\ UNCHANGED <<envVars, syncVars, pureVars>>

\* StreamTrim without the `return` of line 216: the generator goes on after
\* the error event.
StreamTrim_NoReturn ==
    /\ pc = "trim"
    /\ LET filters == FilterSettings(trimLeading, trimTrailing)
       IN  urls' = apply_edge_trimming(urls, filters.trim_leading, filters.trim_trailing)
    /\ IF urls' = <<>>
       THEN Yield(ErrorEvent("nothing_after_trim", "trimmed_all"), "loop")
       ELSE Yield([stage |-> "trimming_edges", progress |-> 30,
                   after_trim |-> Len(urls')], "loop")
    /\ UNCHANGED <<idx, kept, attempts, pdfCalls>>
    /\ UNCHANGED <<envVars, syncVars, pureVars>>

\* Lines 213-218
StreamTrim ==
    /\ pc = "trim"
    /\ LET filters == FilterSettings(trimLeading, trimTrailing)
       IN  urls' = apply_edge_trimming(urls, filters.trim_leading, filters.trim_trailing)
    /\ IF urls' = <<>>
       THEN Yield(ErrorEvent("nothing_after_trim", "trimmed_all"), "done")
       ELSE Yield([stage |-> "trimming_edges", progress |-> 30,
                   after_trim |-> Len(urls')], "loop")
    /\ UNCHANGED <<idx, kept, attempts, pdfCalls>>
    /\ UNCHANGED <<envVars, syncVars, pureVars>>

\* Lines 221-227: the head of an iteration, up to its yield.
StreamLoopHead ==
    /\ pc = "loop"
    /\ idx < Len(urls)
    /\ Yield([stage |-> "downloading_images",
              progress |-> DownloadProgress(idx, Len(urls)),
              current |-> idx + 1, total |-> Len(urls), passed |-> Len(kept)],
             "download")
    /\ UNCHANGED <<urls, idx, kept, attempts, pdfCalls>>
    /\ UNCHANGED <<envVars, syncVars, pureVars>>

\* StreamDownload with `break` in place of the `continue` of line 234: a
\* failed download ends the loop.
StreamDownload_Break ==
    /\ pc = "download"
    /\ LET url     == urls[idx + 1]
           filters == FilterSettings(trimLeading, trimTrailing)
       IN  /\ attempts' = Append(attempts, url)
           /\ IF DownloadRaises(url)
              THEN /\ UNCHANGED kept
                   /\ idx' = Len(urls)
              ELSE /\ idx' = idx + 1
                   /\ IF image_passes_filters(ImageBytes(url), filters)
                      THEN kept' = Append(kept, ImageBytes(url))
                      ELSE UNCHANGED kept
    /\ pc' = "loop"
    /\ UNCHANGED <<urls, pdfCalls, events>>
    /\ UNCHANGED <<envVars, syncVars, pureVars>>

\* Lines 229-234: the body of an iteration.
StreamDownload ==
    /\ pc = "download"
    /\ LET url     == urls[idx + 1]
           filters == FilterSettings(trimLeading, trimTrailing)
       IN  /\ attempts' = Append(attempts, url)
           /\ IF DownloadRaises(url)
              THEN UNCHANGED kept
              ELSE IF image_passes_filters(ImageBytes(url), filters)
              THEN kept' = Append(kept, ImageBytes(url))
              ELSE UNCHANGED kept
    /\ idx' = idx + 1
    /\ pc' = "loop"
    /\ UNCHANGED <<urls, pdfCalls, events>>
    /\ UNCHANGED <<envVars, syncVars, pureVars>>

\* Lines 236-240: the loop is exhausted.
StreamAfterLoop ==
    /\ pc = "loop"
    /\ idx = Len(urls)
    /\ IF kept = <<>>
       THEN Yield(ErrorEvent("no_matching_images", "no_valid_images"), "done")
       ELSE Yield([stage |-> "downloading_images", progress |-> 80,
                   current |-> Len(urls), total |-> Len(urls), passed |-> Len(kept)],
                  "yield_generating")
    /\ UNCHANGED <<urls, idx, kept, attempts, pdfCalls>>
    /\ UNCHANGED <<envVars, syncVars, pureVars>>

\* Lines 243-244
StreamYieldGenerating ==
    /\ pc = "yield_generating"
    /\ Yield([stage |-> "generating_pdf", progress |-> 80, total_pages |-> Len(kept)],
             "build")
    /\ UNCHANGED <<urls, idx, kept, attempts, pdfCalls>>
    /\ UNCHANGED <<envVars, syncVars, pureVars>>

\* StreamBuildPdf with the stage of line 249 written "downloading_images".
StreamBuildPdf_Mislabelled ==
    /\ pc = "build"
    /\ pdfCalls' = Append(pdfCalls, kept)
    /\ IF BuildPdfRaises(kept)
       THEN Yield(ErrorEvent("exception_text", "unknown"), "done")
       ELSE Yield(ProgressEvent("downloading_images", 95), "encode")
    /\ UNCHANGED <<urls, idx, kept, attempts>>
    /\ UNCHANGED <<envVars, syncVars, pureVars>>

\* Lines 247-249, and the handler of lines 258-260
StreamBuildPdf ==
    /\ pc = "build"
    /\ pdfCalls' = Append(pdfCalls, kept)
    /\ IF BuildPdfRaises(kept)
       THEN Yield(ErrorEvent("exception_text", "unknown"), "done")
       ELSE Yield(ProgressEvent("generating_pdf", 95), "encode")
    /\ UNCHANGED <<urls, idx, kept, attempts>>
    /\ UNCHANGED <<envVars, syncVars, pureVars>>

\* Lines 252-253
StreamCompleted ==
    /\ pc = "encode"
    /\ Yield([stage |-> "completed", progress |-> 100,
              pdf_data |-> b64encode(build_pdf(kept)), filename |-> "ppt.pdf"], "done")
    /\ UNCHANGED <<urls, idx, kept, attempts, pdfCalls>>
    /\ UNCHANGED <<envVars, syncVars, pureVars>>

(***************************************************************************)
(* Spec: one request to each endpoint, for the same article URL and the    *)
(* same FilterSettings, answered alike by the hosts.  The handlers share   *)
(* no state, so the order in which they are served is immaterial;          *)
(* process() is served first.  A failed fetch has no body to parse.        *)
(***************************************************************************)
Init ==
    /\ fetchResult \in FetchResults
    /\ html \in Articles
    /\ fetchResult # "ok" => html = <<>>
    /\ trimLeading \in 0..MaxTrim
    /\ trimTrailing \in 0..MaxTrim
    /\ syncPc = "start" /\ syncUrls = <<>> /\ syncIdx = 0 /\ syncKept = <<>>
    /\ syncAttempts = <<>> /\ syncPdfCalls = <<>> /\ syncResp = Idle
    /\ pc = "start" /\ urls = <<>> /\ idx = 0 /\ kept = <<>>
    /\ attempts = <<>> /\ pdfCalls = <<>> /\ events = <<>>
    /\ trimIn = Idle /\ trimOut = Idle /\ filtIn = Idle /\ filtOut = Idle

Next ==
    \/ SyncFetchAndFilter
    \/ SyncDownload
    \/ SyncFinish
    \/ StreamStart
    \/ StreamFetch
    \/ StreamYieldExtracting
    \/ StreamExtract
    \/ StreamYieldFiltering
    \/ StreamDomainFilter
    \/ StreamYieldTrimming
    \/ StreamTrim
    \/ StreamLoopHead
    \/ StreamDownload
    \/ StreamAfterLoop
    \/ StreamYieldGenerating
    \/ StreamBuildPdf
    \/ StreamCompleted

Spec == Init /\ [][Next]_vars

(***************************************************************************)
(* What a request is about, computed from the environment alone: the list  *)
(* each stage produces and the condition of the error taxonomy the request *)
(* falls under.                                                            *)
(***************************************************************************)
Last(s) == s[Len(s)]

RequestFilters == FilterSettings(trimLeading, trimTrailing)

FoundUrls == extract_image_urls(html)

AllowedUrls ==
    LET Allowed(u) == domain_allowed(u, RequestFilters.allowed_domains)
    IN  SelectSeq(FoundUrls, Allowed)

TrimmedUrls == apply_edge_trimming(AllowedUrls, trimLeading, trimTrailing)

\* the download of u succeeds and its image passes the filters
Passes(u) == ~DownloadRaises(u) /\ image_passes_filters(ImageBytes(u), RequestFilters)

\* the images of the passing URLs among us, in the order of us
PassingImages(us) ==
    LET passing == SelectSeq(us, Passes)
    IN  [k \in 1..Len(passing) |-> ImageBytes(passing[k])]

ExpectedImages == PassingImages(TrimmedUrls)

EmptyListConditions ==
    {"NoImagesFound", "NoImagesAfterDomainFilter", "NoImagesAfterTrim",
     "NoImagesPassedQualityFilter"}

Taxonomy == {"FetchFailed"} \cup EmptyListConditions

FailureCondition ==
    IF fetchResult # "ok" THEN "FetchFailed"
    ELSE IF FoundUrls = <<>> THEN "NoImagesFound"
    ELSE IF AllowedUrls = <<>> THEN "NoImagesAfterDomainFilter"
    ELSE IF TrimmedUrls = <<>> THEN "NoImagesAfterTrim"
    ELSE IF ExpectedImages = <<>> THEN "NoImagesPassedQualityFilter"
    ELSE "none"

\* the request fails: a condition of the taxonomy, or build_pdf raises
RequestFails == FailureCondition # "none" \/ BuildPdfRaises(ExpectedImages)

TerminalStages == {"completed", "error"}

SyncDone == syncPc = "done"

StreamDone == pc = "done"

(***************************************************************************)
(* Claims                                                                  *)
(***************************************************************************)
\* C2: in synchronous mode each of the four empty-list conditions ends the
\* request with a 404 whose detail belongs to that stage alone: it is never
\* the detail of another empty-list condition.
SyncDetailOfStage ==
    [NoImagesFound               |-> "no_img_tags",
     NoImagesAfterDomainFilter   |-> "no_urls_after_filter",
     NoImagesPassedQualityFilter |-> "no_matching_images"]

SyncEmptyListDetailsDistinct ==
    (SyncDone /\ FailureCondition \in EmptyListConditions) =>
        /\ syncResp.kind = "error"
        /\ syncResp.status = 404
        /\ \A c \in (DOMAIN SyncDetailOfStage) \ {FailureCondition} :
               syncResp.detail # SyncDetailOfStage[c]

\* C3: a finished stream has exactly one terminal event and it is the last
\* event: `error` when the request fails, `completed` when it succeeds; a
\* stream that is not finished has no terminal event.
OneTerminalEventLast ==
    /\ \A k \in 1..(Len(events) - 1) : events[k].stage \notin TerminalStages
    /\ StreamDone <=> (events # <<>> /\ Last(events).stage \in TerminalStages)
    /\ StreamDone =>
           Last(events).stage = (IF RequestFails THEN "error" ELSE "completed")

\* C3 witness: a stream that ended in an error raised by a stage (build_pdf)
\* after the downloads.
StreamEndedByException ==
    /\ StreamDone
    /\ Last(events).stage = "error"
    /\ Last(events).error_type = "unknown"
    /\ pdfCalls # <<>>

\* C4: the error_type of the terminal error event is the tag of the
\* request's condition of the taxonomy.
TagOfCondition ==
    [FetchFailed                 |-> "fetch_failed",
     NoImagesFound               |-> "no_images",
     NoImagesAfterDomainFilter   |-> "filtered_out",
     NoImagesAfterTrim           |-> "trimmed_all",
     NoImagesPassedQualityFilter |-> "no_valid_images"]

StreamTagNamesCondition ==
    (StreamDone /\ FailureCondition \in Taxonomy) =>
        /\ Last(events).stage = "error"
        /\ Last(events).error_type = TagOfCondition[FailureCondition]

\* C5: in both modes the URLs of the trimmed list are attempted once each,
\* in order, whatever became of the earlier ones; the kept images are the
\* images of the passing URLs among those attempted, in the same order;
\* build_pdf is given exactly these, and a request with a passing image does
\* not end in the no-image error.
DownloadsIndependent ==
    /\ syncPc \in {"downloading", "done"} /\ FailureCondition \notin
           {"FetchFailed", "NoImagesFound", "NoImagesAfterDomainFilter", "NoImagesAfterTrim"}
       => /\ syncAttempts = SubSeq(TrimmedUrls, 1, syncIdx)
          /\ syncKept = PassingImages(syncAttempts)
          /\ SyncDone =>
                 /\ syncAttempts = TrimmedUrls
                 /\ ExpectedImages # <<>> =>
                        /\ syncPdfCalls = <<ExpectedImages>>
                        /\ ~BuildPdfRaises(ExpectedImages) =>
                               /\ syncResp.kind = "pdf"
                               /\ syncResp.body.pages = ExpectedImages
    /\ pc \in {"loop", "download", "yield_generating", "build", "encode", "done"}
           /\ FailureCondition \notin
           {"FetchFailed", "NoImagesFound", "NoImagesAfterDomainFilter", "NoImagesAfterTrim"}
       => /\ attempts = SubSeq(TrimmedUrls, 1, idx)
          /\ kept = PassingImages(attempts)
          /\ pc \notin {"loop", "download"} => attempts = TrimmedUrls
          /\ (pc \in {"encode", "done"} /\ ExpectedImages # <<>>) =>
                 pdfCalls = <<ExpectedImages>>
          /\ (StreamDone /\ ExpectedImages # <<>> /\ ~BuildPdfRaises(ExpectedImages)) =>
                 /\ Last(events).stage = "completed"
                 /\ b64decode(Last(events).pdf_data).pages = ExpectedImages

\* C5 witness: both requests delivered a PDF although a download failed and
\* an image was rejected before the last URL was attempted.
PdfDespiteFailures ==
    /\ SyncDone /\ StreamDone
    /\ syncResp.kind = "pdf"
    /\ Last(events).stage = "completed"
    /\ \E a, b \in 1..Len(attempts) :
           /\ a < Len(attempts) /\ b < Len(attempts)
           /\ attempts[a].kind = "dead"
           /\ attempts[b].kind = "small"

\* C6: in a successful run the progress values of the events, in emission
\* order, never decrease, start at 0 and stay within 0..100; those of the
\* downloading_images events lie within 30..80; the run ends with
\* `completed` at 100.
ProgressMonotone ==
    ~RequestFails =>
        /\ \A k \in 1..Len(events) :
               /\ events[k].stage # "error"
               /\ events[k].progress \in 0..100
               /\ events[k].stage = "downloading_images" => events[k].progress \in 30..80
               /\ k > 1 => events[k - 1].progress <= events[k].progress
        /\ events # <<>> => events[1].progress = 0
        /\ StreamDone => /\ Last(events).stage = "completed"
                         /\ Last(events).progress = 100

\* C6 witness: a completed run over three URLs, one of which failed.
CompletedOverThreeUrls ==
    /\ StreamDone
    /\ Last(events).stage = "completed"
    /\ Len(attempts) = 3
    /\ Len(kept) < 3

\* C7: on the same request and the same answers, synchronous mode returns a
\* PDF exactly when the stream ends with `completed`, an error exactly when
\* it ends with `error`; both give build_pdf the same list, and the payload
\* of `completed` decodes to the PDF of the synchronous response.
ModesAgree ==
    (SyncDone /\ StreamDone) =>
        /\ syncResp.kind = "pdf" <=> Last(events).stage = "completed"
        /\ syncResp.kind = "error" <=> Last(events).stage = "error"
        /\ syncPdfCalls = pdfCalls
        /\ syncResp.kind = "pdf" => b64decode(Last(events).pdf_data) = syncResp.body

\* C7 witness: both modes delivered the same PDF of at least two pages out of
\* a list from which an image was dropped.
BothDeliveredSamePdf ==
    /\ SyncDone /\ StreamDone
    /\ syncResp.kind = "pdf"
    /\ Len(syncResp.body.pages) >= 2
    /\ Len(syncAttempts) > Len(syncKept)
    /\ b64decode(Last(events).pdf_data) = syncResp.body

\* C9: the stages of the emitted events form a path of
\* fetching_html -> extracting_urls -> filtering_domains -> trimming_edges
\* -> downloading_images -> generating_pdf -> completed: the first event is
\* of fetching_html, each event is of the stage of its predecessor or of the
\* next one, or is `error`, and nothing follows `completed` or `error`.
StageRank ==
    [fetching_html |-> 1, extracting_urls |-> 2, filtering_domains |-> 3,
     trimming_edges |-> 4, downloading_images |-> 5, generating_pdf |-> 6,
     completed |-> 7]

StagesFormPath ==
    /\ events # <<>> => events[1].stage = "fetching_html"
    /\ \A k \in 1..(Len(events) - 1) :
           /\ events[k].stage \notin TerminalStages
           /\ \/ events[k + 1].stage = "error"
              \/ /\ events[k + 1].stage \in DOMAIN StageRank
                 /\ StageRank[events[k + 1].stage] - StageRank[events[k].stage] \in {0, 1}

\* C9 witness: `error` directly follows an event of generating_pdf, the last
\* non-terminal stage.
ErrorAfterGeneratingPdf ==
    /\ Len(events) >= 2
    /\ Last(events).stage = "error"
    /\ events[Len(events) - 1].stage = "generating_pdf"

\* C10: build_pdf is never called with an empty list, a generating_pdf event
\* is emitted only with a kept image, and a request none of whose images
\* passes ends in the no-image error of its mode without a call of build_pdf.
BuildPdfNeverEmpty ==
    /\ \A k \in 1..Len(syncPdfCalls) : syncPdfCalls[k] # <<>>
    /\ \A k \in 1..Len(pdfCalls) : pdfCalls[k] # <<>>
    /\ \A k \in 1..Len(events) : events[k].stage = "generating_pdf" => kept # <<>>
    /\ FailureCondition = "NoImagesPassedQualityFilter" =>
           /\ SyncDone => /\ syncResp = HttpError(404, "no_matching_images")
                          /\ syncPdfCalls = <<>>
           /\ StreamDone => /\ Last(events).stage = "error"
                            /\ Last(events).error_type = "no_valid_images"
                            /\ pdfCalls = <<>>

\* C10 witness: every URL was attempted, none passed, and both requests ended
\* in the no-image error.
AllImagesDropped ==
    /\ SyncDone /\ StreamDone
    /\ Len(attempts) >= 2
    /\ kept = <<>> /\ syncKept = <<>>
    /\ syncResp.detail = "no_matching_images"
    /\ \E a, b \in 1..Len(attempts) : attempts[a].kind = "dead" /\ attempts[b].kind = "small"

====
